---- MODULE Spec2Model ----
(***************************************************************************)
(* A model of digest_bot.py: InfrastructureDigestBot and its pipeline      *)
(*   scrape_example -> categorize_headlines -> generate_digest_with_gemini *)
(*   -> send_to_telegram.                                                  *)
(* A Python str is a sequence of Unicode code points (integers).           *)
(***************************************************************************)
EXTENDS Integers, Sequences, FiniteSets, TLC

VARIABLES
    pc,          \* the position of the run: the stage about to execute
    text,        \* clean_text: the argument of the first call
    cleaned,     \* clean_text: the results of the successive calls
    siteIdx,     \* scrape_example: the index of the next entry of urls
    outcome,     \* scrape_example: per site, what session.get produced
    headlines,   \* scrape_example: the list `headlines`
    categorized, \* categorize_headlines: the dict `categories`
    now,         \* the clock value the last datetime.now(ist) returned
    hashOrder,   \* the iteration order this interpreter's sets of str showed
    runs,        \* the number of interpreter processes started so far
    prompt,      \* the prompts handed to gemini_model.generate_content
    digest,      \* the text generate_digest_with_gemini returned
    fallbacks,   \* what each create_fallback_digest call got and returned
    sent,        \* the texts handed to telegram_bot.send_message
    calls,       \* the stages and backend calls made, in order
    log          \* the lines printed, as tags

vars == <<pc, text, cleaned, siteIdx, outcome, headlines, categorized, now,
          hashOrder, runs, prompt, digest, fallbacks, sent, calls, log>>

-----------------------------------------------------------------------------
(* Strings.                                                                *)

\* The printable ASCII characters from 0x20 to 0x5F, in code order.
AsciiLow ==
    " !\"#$%&'()*+,-./0123456789:;<=>?@ABCDEFGHIJKLMNOPQRSTUVWXYZ[\\]^_"

\* The printable ASCII characters from 0x61 to 0x7E, in code order.
AsciiHigh == "abcdefghijklmnopqrstuvwxyz{|}~"

\* The code point of a one-character string.
Ord(c) ==
    IF c = "\n" THEN 10
    ELSE IF \E i \in 1..Len(AsciiLow) : SubSeq(AsciiLow, i, i) = c
         THEN 31 + (CHOOSE i \in 1..Len(AsciiLow) : SubSeq(AsciiLow, i, i) = c)
         ELSE 96 + (CHOOSE i \in 1..Len(AsciiHigh) : SubSeq(AsciiHigh, i, i) = c)

\* A string literal as the sequence of its code points.
Codes(s) == [i \in 1..Len(s) |-> Ord(SubSeq(s, i, i))]

\* Python's `sub in s`.
Contains(s, sub) ==
    \/ sub = <<>>
    \/ \E i \in 1..(Len(s) - Len(sub) + 1) :
          s[i] = sub[1] /\ SubSeq(s, i, i + Len(sub) - 1) = sub

EndsWith(s, suffix) ==
    /\ Len(s) >= Len(suffix)
    /\ SubSeq(s, Len(s) - Len(suffix) + 1, Len(s)) = suffix

StartsWith(s, prefix) ==
    /\ Len(s) >= Len(prefix)
    /\ SubSeq(s, 1, Len(prefix)) = prefix

\* The positions of s where an occurrence of sub starts.
Occurrences(s, sub) ==
    {i \in 1..(Len(s) - Len(sub) + 1) :
        s[i] = sub[1] /\ SubSeq(s, i, i + Len(sub) - 1) = sub}

RECURSIVE ReplaceFrom(_, _, _, _, _)
\* str.replace from position i on: the leftmost occurrences, not overlapping,
\* in one pass (the replacement text is not scanned again). at is
\* Occurrences(s, old).
ReplaceFrom(s, i, old, new, at) ==
    LET ahead == {m \in at : m >= i}
    IN  IF ahead = {} THEN SubSeq(s, i, Len(s))
        ELSE LET m == CHOOSE x \in ahead : \A y \in ahead : x <= y
             IN  SubSeq(s, i, m - 1) \o new
                 \o ReplaceFrom(s, m + Len(old), old, new, at)

\* Python's s.replace(old, new), old non-empty.
Replace(s, old, new) == ReplaceFrom(s, 1, old, new, Occurrences(s, old))

RECURSIVE Join(_, _)
\* Python's sep.join(parts).
Join(parts, sep) ==
    IF parts = <<>> THEN <<>>
    ELSE IF Len(parts) = 1 THEN parts[1]
    ELSE parts[1] \o sep \o Join(Tail(parts), sep)

RECURSIVE Concat(_)
\* The concatenation of a sequence of strings.
Concat(parts) == IF parts = <<>> THEN <<>> ELSE parts[1] \o Concat(Tail(parts))

RECURSIVE Digits(_)
Digits(n) ==
    IF n < 10 THEN <<48 + n>> ELSE Digits(n \div 10) \o <<48 + (n % 10)>>

\* Python's str(n) for n >= 0, as in an f-string.
Str(n) == Digits(n)

Min(a, b) == IF a < b THEN a ELSE b

\* Python's s[:n].
Take(s, n) == SubSeq(s, 1, Min(n, Len(s)))

-----------------------------------------------------------------------------
(* clean_text (lines 62-67).                                               *)

\* How many times in a row clean_text is applied.
MaxCleanCalls == 2

\* The characters str.strip() strips and the pattern \s matches on a str:
\* the Unicode whitespace among the code points of the model.
IsSpace(c) == c \in ({9, 10, 11, 12, 13, 28, 29, 30, 31, 32, 133, 160, 8232, 8233})

\* text.strip()
Strip(s) ==
    LET keep == SelectSeq([i \in 1..Len(s) |-> i], LAMBDA i : ~IsSpace(s[i]))
    IN  IF keep = <<>> THEN <<>> ELSE SubSeq(s, keep[1], keep[Len(keep)])

\* re.sub(r'\s+', ' ', s): every maximal whitespace run becomes one space.
CollapseSpaces(s) ==
    LET first == SelectSeq([i \in 1..Len(s) |-> i],
                     LAMBDA i : ~(IsSpace(s[i]) /\ i > 1 /\ IsSpace(s[i - 1])))
    IN  [k \in 1..Len(first) |-> IF IsSpace(s[first[k]]) THEN 32 ELSE s[first[k]]]

\* What the class [^\x00-\x7F] matches.
IsNonAscii(c) == c > 127

\* The substitution of line 66 left out.
RemoveNonAscii_Skipped(s) == s

\* re.sub(r'[^\x00-\x7F]+', '', s)
RemoveNonAscii(s) == SelectSeq(s, LAMBDA c : ~IsNonAscii(c))

\* The slice bound of line 67.
MaxTitleLen == 200

Ellipsis == Codes("...")

Truncate(s) == IF Len(s) > MaxTitleLen THEN Take(s, MaxTitleLen) \o Ellipsis ELSE s

clean_text(s) ==
    IF s = <<>> THEN <<>>
    ELSE Truncate(RemoveNonAscii(CollapseSpaces(Strip(s))))

\* A call of clean_text: on the text first, then on its own last result.
CleanText ==
    /\ pc = "clean"
    /\ Len(cleaned) < MaxCleanCalls
    /\ cleaned' = Append(cleaned,
           clean_text(IF cleaned = <<>> THEN text ELSE cleaned[Len(cleaned)]))
    /\ UNCHANGED <<pc, text, siteIdx, outcome, headlines, categorized, now,
                   hashOrder, runs, prompt, digest, fallbacks, sent, calls, log>>

-----------------------------------------------------------------------------
(* scrape_example (lines 69-113).                                          *)

\* How many entries of urls the model runs over.
NumSites == 3

\* The dict urls (lines 70-78), in insertion order.
urls == <<
    [source |-> "ET Infra", url |-> Codes("https://infra.economictimes.indiatimes.com/")],
    [source |-> "Infrastructure Today", url |-> Codes("https://infrastructuretoday.co.in/")],
    [source |-> "L&T", url |-> Codes("https://www.larsentoubro.com/corporate/media/press-releases/")],
    [source |-> "Construction World", url |-> Codes("https://www.constructionworld.in/latest-news")],
    [source |-> "ONGC", url |-> Codes("https://ongcindia.com/")],
    [source |-> "Projects Today", url |-> Codes("https://www.projectstoday.com/News")],
    [source |-> "BEML", url |-> Codes("https://www.bemlindia.in/press-release/")] >>

Sites == SubSeq(urls, 1, Min(NumSites, Len(urls)))

Sources == {Sites[i].source : i \in 1..Len(Sites)}

\* href when the element has no such attribute: no string of code points.
None == << -1 >>

\* The slice bound of line 103.
ArticleLimit == 10

\* s.rstrip('/') and s.lstrip('/')
RStripSlash(s) ==
    LET keep == {i \in 1..Len(s) : s[i] # 47}
    IN  IF keep = {} THEN <<>>
        ELSE SubSeq(s, 1, CHOOSE i \in keep : \A j \in keep : i >= j)

LStripSlash(s) ==
    LET keep == {i \in 1..Len(s) : s[i] # 47}
    IN  IF keep = {} THEN <<>>
        ELSE SubSeq(s, CHOOSE i \in keep : \A j \in keep : i <= j, Len(s))

Http == Codes("http")
Slash == Codes("/")

\* Line 106. An empty href is falsy, like None.
ResolveLink(url, href) ==
    IF href # None /\ href # <<>> /\ StartsWith(href, Http) THEN href
    ELSE IF href # None /\ href # <<>>
         THEN RStripSlash(url) \o Slash \o LStripSlash(href)
         ELSE url

RECURSIVE ExtractHeadlines(_, _, _)
\* The loop of lines 103-108 over the elements the site's selector matched:
\* an element whose cleaned title is empty adds nothing.
ExtractHeadlines(articles, source, url) ==
    IF articles = <<>> THEN <<>>
    ELSE LET article == Head(articles)
             title == clean_text(article.text)
             link == ResolveLink(url, article.href)
         IN  (IF title # <<>>
              THEN <<[title |-> title, source |-> source, url |-> link]>>
              ELSE <<>>)
             \o ExtractHeadlines(Tail(articles), source, url)

\* What one response adds to `headlines` (lines 84-108). The status code of
\* the response is never read.
HeadlinesOf(response, site) ==
    ExtractHeadlines(Take(response.articles, ArticleLimit), site.source, site.url)

\* The elements a site's selector matched in a response body, each with the
\* text get_text(strip=True) gives and its href.
NewsBody ==
    << [text |-> Codes("ONGC signs tender for gas pipeline"), href |-> Codes("/news/1")] >>

MixedBody ==
    << [text |-> Codes("New  crane") \o <<233, 9>> \o Codes("order"), href |-> None],
       [text |-> <<233, 8212>>, href |-> Codes("https://example.com/a")] >>

ErrorPageBody ==
    [i \in 1..(ArticleLimit + 1) |->
        [text |-> Codes("Page not found"), href |-> Codes("/")]]

\* What session.get can return: the status code and the matched elements.
Responses == {
    [status |-> 200, articles |-> NewsBody],
    [status |-> 200, articles |-> MixedBody],
    [status |-> 404, articles |-> ErrorPageBody],
    [status |-> 503, articles |-> <<>>] }

\* session.get raises and the loop stays on the site, to fetch it again.
FetchError_Retried ==
    /\ pc = "scrape"
    /\ siteIdx <= Len(Sites)
    /\ outcome' = [outcome EXCEPT ![Sites[siteIdx].source] =
                                     [kind |-> "error", status |-> 0]]
    /\ calls' = Append(calls, <<"get", Sites[siteIdx].source>>)
    /\ log' = Append(log, <<"Scraping error", Sites[siteIdx].source>>)
    /\ UNCHANGED <<pc, text, cleaned, siteIdx, headlines, categorized, now,
                   hashOrder, runs, prompt, digest, fallbacks, sent>>

\* session.get raises (line 83): the except clause of lines 110-111 logs and
\* the loop goes on with the next site.
FetchError ==
    /\ pc = "scrape"
    /\ siteIdx <= Len(Sites)
    /\ outcome' = [outcome EXCEPT ![Sites[siteIdx].source] =
                                     [kind |-> "error", status |-> 0]]
    /\ calls' = Append(calls, <<"get", Sites[siteIdx].source>>)
    /\ log' = Append(log, <<"Scraping error", Sites[siteIdx].source>>)
    /\ siteIdx' = siteIdx + 1
    /\ UNCHANGED <<pc, text, cleaned, headlines, categorized, now, hashOrder,
                   runs, prompt, digest, fallbacks, sent>>

\* session.get returns a response (lines 83-108).
FetchResponse ==
    /\ pc = "scrape"
    /\ siteIdx <= Len(Sites)
    /\ \E response \in Responses :
          /\ outcome' = [outcome EXCEPT ![Sites[siteIdx].source] =
                              [kind |-> "response", status |-> response.status]]
          /\ headlines' = headlines \o HeadlinesOf(response, Sites[siteIdx])
    /\ calls' = Append(calls, <<"get", Sites[siteIdx].source>>)
    /\ siteIdx' = siteIdx + 1
    /\ UNCHANGED <<pc, text, cleaned, categorized, now, hashOrder, runs, prompt,
                   digest, fallbacks, sent, log>>

\* The loop of line 81 is over: return headlines (line 113).
ScrapeReturn ==
    /\ pc = "scrape"
    /\ siteIdx > Len(Sites)
    /\ pc' = "categorize"
    /\ UNCHANGED <<text, cleaned, siteIdx, outcome, headlines, categorized, now,
                   hashOrder, runs, prompt, digest, fallbacks, sent, calls, log>>

-----------------------------------------------------------------------------
(* categorize_headlines (lines 115-145).                                   *)

\* The keys of `categories` (lines 116-123), in insertion order.
CategoryOrder == << "Energy & Oil", "Construction & Infrastructure",
                    "Tenders & Contracts", "Technology & Innovation",
                    "Heavy Equipment", "Other News" >>

Categories == {CategoryOrder[i] : i \in 1..Len(CategoryOrder)}

\* Lines 124-128.
energy == {Codes("oil"), Codes("gas"), Codes("energy"), Codes("ongc")}
construction == {Codes("construction"), Codes("infrastructure"), Codes("bridge"),
                 Codes("metro")}
tenders == {Codes("tender"), Codes("bid"), Codes("contract")}
tech == {Codes("technology"), Codes("digital"), Codes("ai")}
equipment == {Codes("crane"), Codes("loader"), Codes("excavator"), Codes("backhoe"),
              Codes("bulldozer"), Codes("heavy equipment"), Codes("jcb"),
              Codes("construction machine")}

\* str.lower() on an ASCII string.
Lower(s) == [i \in 1..Len(s) |-> IF s[i] >= 65 /\ s[i] <= 90 THEN s[i] + 32 ELSE s[i]]

\* any(k in title for k in keywords)
AnyIn(keywords, title) == \E k \in keywords : Contains(title, k)

\* The chain with the technology test moved before the equipment test, as
\* the keys of `categories` are ordered.
CategoryOf_DisplayOrder(h) ==
    LET title == Lower(h.title)
    IN  IF AnyIn(energy, title) THEN "Energy & Oil"
        ELSE IF AnyIn(construction, title) THEN "Construction & Infrastructure"
        ELSE IF AnyIn(tenders, title) THEN "Tenders & Contracts"
        ELSE IF AnyIn(tech, title) THEN "Technology & Innovation"
        ELSE IF AnyIn(equipment, title) THEN "Heavy Equipment"
        ELSE "Other News"

\* The if/elif chain of lines 131-143: the key the headline is appended to.
CategoryOf(h) ==
    LET title == Lower(h.title)
    IN  IF AnyIn(energy, title) THEN "Energy & Oil"
        ELSE IF AnyIn(construction, title) THEN "Construction & Infrastructure"
        ELSE IF AnyIn(tenders, title) THEN "Tenders & Contracts"
        ELSE IF AnyIn(equipment, title) THEN "Heavy Equipment"
        ELSE IF AnyIn(tech, title) THEN "Technology & Innovation"
        ELSE "Other News"

RECURSIVE CategorizeInto(_, _)
\* The loop of lines 130-143 from `categories` on.
CategorizeInto(categories, hs) ==
    IF hs = <<>> THEN categories
    ELSE LET h == Head(hs)
             c == CategoryOf(h)
         IN  CategorizeInto([categories EXCEPT ![c] = Append(@, h)], Tail(hs))

categorize_headlines(hs) == CategorizeInto([c \in Categories |-> <<>>], hs)

Categorize ==
    /\ pc = "categorize"
    /\ categorized' = categorize_headlines(headlines)
    /\ calls' = Append(calls, <<"categorize_headlines">>)
    /\ pc' = "generate"
    /\ UNCHANGED <<text, cleaned, siteIdx, outcome, headlines, now, hashOrder,
                   runs, prompt, digest, fallbacks, sent, log>>

-----------------------------------------------------------------------------
(* generate_digest_with_gemini and create_fallback_digest (lines 147-202). *)

\* What datetime.now(ist) can return: the hour and strftime("%d %B %Y").
Clocks == { [hour |-> 9, date_only |-> Codes("05 November 2026")],
            [hour |-> 15, date_only |-> Codes("05 November 2026")] }

NoClock == [hour |-> 0, date_only |-> <<>>]

GoodMorning == Codes("Good Morning Mr. Keshav Agarwal")
GoodEvening == Codes("Good Evening Mr. Keshav Agarwal")

\* Lines 152 and 189.
Greeting(t) == IF t.hour < 12 THEN GoodMorning ELSE GoodEvening

\* The category names and the source labels as strings of code points.
CategoryCodes == [c \in Categories |-> Codes(c)]
SourceCodes == [i \in 1..Len(urls) |-> Codes(urls[i].source)]
SourceText(source) == SourceCodes[CHOOSE i \in 1..Len(urls) : urls[i].source = source]

NL == Codes("\n")

\* "\U0001F4C8" and "\U0001F680"
ChartEmoji == <<128200>>
RocketEmoji == <<128640>>

Signature == RocketEmoji \o Codes(" Stay ahead with CD Jindal AI Assistant")

\* The categories with their lists, in the dict's order, the empty ones left out.
NonEmptyCategories(cat) == SelectSeq(CategoryOrder, LAMBDA c : cat[c] # <<>>)

\* Lines 158-161 for one category.
PromptSection(cat, c) ==
    NL \o CategoryCodes[c] \o <<58>> \o NL
    \o Concat([i \in 1..Len(cat[c]) |->
                  <<45, 32>> \o cat[c][i].title \o <<32, 40>>
                  \o SourceText(cat[c][i].source) \o <<41>> \o NL])

NoNewsAvailable == Codes("No infrastructure news available.")

\* Lines 154-164. A non-empty headlines_text never strips to nothing.
HeadlinesText(cat) ==
    LET sections == NonEmptyCategories(cat)
    IN  IF sections = <<>> THEN NoNewsAvailable
        ELSE Concat([i \in 1..Len(sections) |-> PromptSection(cat, sections[i])])

RECURSIVE SumLen(_, _)
SumLen(cat, cs) == IF cs = <<>> THEN 0 ELSE Len(cat[Head(cs)]) + SumLen(cat, Tail(cs))

\* total_articles (lines 155-161).
TotalArticles(cat) == SumLen(cat, CategoryOrder)

PromptIntro == Codes("Here are today's top Infrastructure Headlines (")
PromptTotal == Codes(" total):")

\* Lines 171-177.
PromptRules ==
    Codes("Now write a Telegram-friendly summary using the following rules:") \o NL
    \o Codes("- Use only <b> and <i> HTML tags.") \o NL
    \o Codes("- For each category (like Energy & Oil, Heavy Equipment, etc.), summarize in 2")
    \o <<8211>> \o Codes("3 impactful sentences.") \o NL
    \o Codes("- Include specific company names, numbers, and regions.") \o NL
    \o Codes("- Mention the source name (e.g., ET Infra), but do not hyperlink it.") \o NL
    \o Codes("- Make a separate section for <b>Heavy Equipment</b> updates (like cranes, excavators, machinery).") \o NL
    \o Codes("- End with: ") \o Signature

\* Lines 166-177.
BuildPrompt(cat, t) ==
    Greeting(t) \o <<33, 32>> \o ChartEmoji \o NL \o t.date_only \o NL \o NL
    \o PromptIntro \o Str(TotalArticles(cat)) \o PromptTotal \o NL
    \o HeadlinesText(cat) \o NL \o NL
    \o PromptRules

\* list(s) of a set s of str: the members in this interpreter's iteration
\* order, which the hash seed of the process decides.
ListOfSet(s, order) == SelectSeq(order, LAMBDA x : x \in s)

\* Line 195.
SourcesOf(items, order) == ListOfSet({items[i].source : i \in 1..Len(items)}, order)

BoldOpen == Codes("<b>")
BoldClose == Codes("</b>")
HeadingClose == Codes(":</b>")
KeyUpdatesFrom == Codes(" key updates from ")
CommaSpace == Codes(", ")
FullStop == Codes(".")
DigestTitle == Codes("<b>Daily Infrastructure Industry Digest</b>")

\* Line 196 with the slice [:2] left out.
FallbackSection_AllSources(c, items, order) ==
    LET sources == SourcesOf(items, order)
        named == [i \in 1..Len(sources) |-> SourceText(sources[i])]
    IN  BoldOpen \o CategoryCodes[c] \o HeadingClose \o NL
        \o Str(Len(items)) \o KeyUpdatesFrom
        \o Join(named, CommaSpace) \o FullStop \o NL \o NL

\* Line 196.
FallbackSection(c, items, order) ==
    LET sources == Take(SourcesOf(items, order), 2)
        named == [i \in 1..Len(sources) |-> SourceText(sources[i])]
    IN  BoldOpen \o CategoryCodes[c] \o HeadingClose \o NL
        \o Str(Len(items)) \o KeyUpdatesFrom
        \o Join(named, CommaSpace) \o FullStop \o NL \o NL

\* Line 191.
FallbackHeader(t) ==
    BoldOpen \o Greeting(t) \o <<33, 32>> \o ChartEmoji \o BoldClose \o NL
    \o t.date_only \o NL \o NL
    \o DigestTitle \o NL \o NL

\* Line 199.
NoNewsLine == Codes("No infrastructure news today.") \o NL \o NL

\* Lines 185-200, without line 201.
create_fallback_digest_Unsigned(cat, t, order) ==
    LET sections == NonEmptyCategories(cat)
    IN  FallbackHeader(t)
        \o Concat([i \in 1..Len(sections) |->
                      FallbackSection(sections[i], cat[sections[i]], order)])
        \o (IF \A c \in Categories : cat[c] = <<>> THEN NoNewsLine ELSE <<>>)

\* Lines 185-202.
create_fallback_digest(cat, t, order) ==
    LET sections == NonEmptyCategories(cat)
    IN  FallbackHeader(t)
        \o Concat([i \in 1..Len(sections) |->
                      FallbackSection(sections[i], cat[sections[i]], order)])
        \o (IF \A c \in Categories : cat[c] = <<>> THEN NoNewsLine ELSE <<>>)
        \o Signature

\* What response.text can be.
GeminiTexts == {
    <<>>,
    Codes("<b>Energy & Oil</b><br>ONGC signs a tender (ET Infra).<ul><li>Foo</li></ul>")
        \o NL \o Signature }

\* generate_content returns (lines 148-180).
GenerateOk ==
    /\ pc = "generate"
    /\ \E t \in Clocks, r \in GeminiTexts :
          /\ now' = t
          /\ prompt' = Append(prompt, BuildPrompt(categorized, t))
          /\ digest' = r
    /\ calls' = Append(calls, <<"generate_content">>)
    /\ pc' = "send"
    /\ UNCHANGED <<text, cleaned, siteIdx, outcome, headlines, categorized,
                   hashOrder, runs, fallbacks, sent, log>>

\* The source labels of the headlines in the categories.
SourcesIn(cat) == UNION {{cat[c][i].source : i \in 1..Len(cat[c])} : c \in Categories}

RECURSIVE Perms(_)
\* The sequences that list every member of s once.
Perms(s) ==
    IF s = {} THEN {<<>>}
    ELSE UNION {{<<x>> \o p : p \in Perms(s \ {x})} : x \in s}

\* The iteration orders the sets of line 195 can show: the hash seed of the
\* process, drawn when the interpreter starts, decides which.
HashOrders(cat) == Perms(SourcesIn(cat))

\* generate_content raises: the except clause of lines 181-183 returns the
\* fallback digest, which reads the clock again. A run calls
\* create_fallback_digest at most once, so the order its sets show is seen here.
GenerateFail ==
    /\ pc = "generate"
    /\ \E t \in Clocks, t2 \in Clocks, order \in HashOrders(categorized) :
          /\ t.hour <= t2.hour
          /\ now' = t2
          /\ hashOrder' = order
          /\ prompt' = Append(prompt, BuildPrompt(categorized, t))
          /\ digest' = create_fallback_digest(categorized, t2, order)
          /\ fallbacks' = Append(fallbacks,
                 [now |-> t2, run |-> runs,
                  text |-> create_fallback_digest(categorized, t2, order)])
    /\ calls' = calls \o << <<"generate_content">>, <<"create_fallback_digest">> >>
    /\ log' = Append(log, <<"Gemini failed">>)
    /\ pc' = "send"
    /\ UNCHANGED <<text, cleaned, siteIdx, outcome, headlines, categorized,
                   runs, sent>>

-----------------------------------------------------------------------------
(* send_to_telegram and run_digest (lines 204-231).                        *)

Bullet == <<8226, 32>>

UlOpen == Codes("<ul>")
UlClose == Codes("</ul>")
LiOpen == Codes("<li>")
LiClose == Codes("</li>")
Br == Codes("<br>")
BrSlash == Codes("<br/>")
BrSpaceSlash == Codes("<br />")
Nbsp == Codes("&nbsp;")
Space == Codes(" ")

\* Lines 206-215 without the replacement of line 210.
Sanitize_KeepsLiClose(message) ==
    Replace(Replace(Replace(Replace(Replace(Replace(Replace(message,
        UlOpen, <<>>),
        UlClose, <<>>),
        LiOpen, Bullet),
        Br, NL),
        BrSlash, NL),
        BrSpaceSlash, NL),
        Nbsp, Space)

\* Lines 206-215.
Sanitize(message) ==
    Replace(Replace(Replace(Replace(Replace(Replace(Replace(Replace(message,
        UlOpen, <<>>),
        UlClose, <<>>),
        LiOpen, Bullet),
        LiClose, NL),
        Br, NL),
        BrSlash, NL),
        BrSpaceSlash, NL),
        Nbsp, Space)

\* send_message returns (lines 216-222).
SendOk ==
    /\ pc = "send"
    /\ sent' = Append(sent, Sanitize(digest))
    /\ calls' = Append(calls, <<"send_message">>)
    /\ log' = Append(log, <<"Sent successfully">>)
    /\ pc' = "done"
    /\ UNCHANGED <<text, cleaned, siteIdx, outcome, headlines, categorized, now,
                   hashOrder, runs, prompt, digest, fallbacks>>

\* send_message raises with no except clause around it: the error leaves
\* send_to_telegram and run_digest.
SendFail_Uncaught ==
    /\ pc = "send"
    /\ sent' = Append(sent, Sanitize(digest))
    /\ calls' = Append(calls, <<"send_message">>)
    /\ pc' = "raised"
    /\ UNCHANGED <<text, cleaned, siteIdx, outcome, headlines, categorized, now,
                   hashOrder, runs, prompt, digest, fallbacks, log>>

\* send_message raises: the except clause of lines 223-224 logs, and
\* run_digest returns.
SendFail ==
    /\ pc = "send"
    /\ sent' = Append(sent, Sanitize(digest))
    /\ calls' = Append(calls, <<"send_message">>)
    /\ log' = Append(log, <<"Telegram error">>)
    /\ pc' = "done"
    /\ UNCHANGED <<text, cleaned, siteIdx, outcome, headlines, categorized, now,
                   hashOrder, runs, prompt, digest, fallbacks>>

\* run_digest is called (lines 226-228).
RunDigest ==
    /\ pc = "start"
    /\ log' = Append(log, <<"Running Digest...">>)
    /\ pc' = "scrape"
    /\ UNCHANGED <<text, cleaned, siteIdx, outcome, headlines, categorized, now,
                   hashOrder, runs, prompt, digest, fallbacks, sent, calls>>

-----------------------------------------------------------------------------
(* One run of the bot (lines 238-239).                                     *)

NoCategories == [c \in Categories |-> <<>>]

Init ==
    /\ pc = "start"
    /\ text = <<>>
    /\ cleaned = <<>>
    /\ siteIdx = 1
    /\ outcome = [s \in Sources |-> [kind |-> "pending", status |-> 0]]
    /\ headlines = <<>>
    /\ categorized = NoCategories
    /\ now = NoClock
    /\ hashOrder = <<>>
    /\ runs = 1
    /\ prompt = <<>>
    /\ digest = <<>>
    /\ fallbacks = <<>>
    /\ sent = <<>>
    /\ calls = <<>>
    /\ log = <<>>

Next ==
    \/ RunDigest
    \/ FetchError
    \/ FetchResponse
    \/ ScrapeReturn
    \/ Categorize
    \/ GenerateOk
    \/ GenerateFail
    \/ SendOk
    \/ SendFail

Spec == Init /\ [][Next]_vars

\* Whether the tag is among the lines printed.
Logged(tag) == \E i \in 1..Len(log) : log[i][1] = tag

\* The site's fetch had a transport failure or a response other than 200.
FetchFailed(s) ==
    \/ outcome[s].kind = "error"
    \/ outcome[s].kind = "response" /\ outcome[s].status # 200

\* C3: a site whose fetch has a transport failure or returns a non-200
\* response adds no headline, and every remaining site is still processed.
C3_FailedSiteAddsNothing ==
    /\ \A s \in Sources : FetchFailed(s) =>
          \A i \in 1..Len(headlines) : headlines[i].source # s
    /\ pc \notin {"start", "scrape"} =>
          \A s \in Sources : outcome[s].kind # "pending"

\* C3, for the transport failures alone.
C3_TransportFailureAddsNothing ==
    /\ \A s \in Sources : outcome[s].kind = "error" =>
          \A i \in 1..Len(headlines) : headlines[i].source # s
    /\ pc \notin {"start", "scrape"} =>
          \A s \in Sources : outcome[s].kind # "pending"

SignatureWords == Codes("Stay ahead with CD Jindal AI Assistant")

\* C4: generate_digest_with_gemini never raises, and when the backend call
\* fails it returns the fallback digest, a non-empty text with the signature
\* line.
C4_FallbackOnFailure ==
    /\ pc # "raised"
    /\ Logged("Gemini failed") =>
          /\ pc \in {"send", "done"}
          /\ fallbacks # <<>>
          /\ digest = fallbacks[Len(fallbacks)].text
          /\ digest # <<>>
          /\ Contains(digest, SignatureWords)

\* The backend call failed for categories with headlines in them.
C4_Witness ==
    /\ Logged("Gemini failed")
    /\ pc = "send"
    /\ headlines # <<>>
    /\ digest # <<>>

\* C7: when the delivery backend call fails, send_to_telegram catches the
\* error and run_digest completes without raising.
C7_DeliveryFailureCaught ==
    /\ pc # "raised"
    /\ calls # <<>> /\ calls[Len(calls)] = <<"send_message">> => pc = "done"
    /\ Logged("Telegram error") => pc = "done"

\* The delivery backend call failed and the run is over.
C7_Witness ==
    /\ Logged("Telegram error")
    /\ ~Logged("Sent successfully")
    /\ pc = "done"

\* C8: each site is fetched at most once, the generative backend and the
\* delivery backend are called at most once each, and the delivery call
\* comes after every fetch, the categorizing and the composing.
C8_NoRetry ==
    /\ \A i, j \in 1..Len(calls) : calls[i] = calls[j] => i = j
    /\ Len(sent) <= 1
    /\ Len(prompt) <= 1
    /\ \A k \in 1..Len(calls) : calls[k] = <<"send_message">> =>
          /\ \A s \in Sources : \E i \in 1..(k - 1) : calls[i] = <<"get", s>>
          /\ \E i \in 1..(k - 1) : calls[i] = <<"categorize_headlines">>
          /\ \E i \in 1..(k - 1) : calls[i] = <<"generate_content">>
          /\ k = Len(calls)

\* A run in which a site's fetch, the backend call and the delivery all
\* failed is over.
C8_Witness ==
    /\ pc = "done"
    /\ \E s \in Sources : outcome[s].kind = "error"
    /\ Logged("Gemini failed")
    /\ Logged("Telegram error")

-----------------------------------------------------------------------------
(* clean_text on its own.                                                  *)

\* The longest tail of a text after its run of letters.
MaxCore == 3

\* NUL, TAB, space, A, DEL, NO-BREAK SPACE, e-acute.
CleanAlphabet == {0, 9, 32, 65, 127, 160, 233}

RECURSIVE SeqsUpTo(_, _)
\* The sequences over s of length at most n.
SeqsUpTo(s, n) ==
    IF n = 0 THEN {<<>>}
    ELSE LET shorter == SeqsUpTo(s, n - 1)
         IN  shorter \cup {Append(q, x) : q \in shorter, x \in s}

\* A run of k letters A.
Pad(k) == [i \in 1..k |-> 65]

\* Around the slice bound of line 67.
PadLens == {0, MaxTitleLen - 2, MaxTitleLen - 1, MaxTitleLen}

Texts == {Pad(k) \o core : k \in PadLens, core \in SeqsUpTo(CleanAlphabet, MaxCore)}

InitClean ==
    /\ pc = "clean"
    /\ text \in Texts
    /\ cleaned = <<>>
    /\ siteIdx = 1
    /\ outcome = [s \in Sources |-> [kind |-> "pending", status |-> 0]]
    /\ headlines = <<>>
    /\ categorized = NoCategories
    /\ now = NoClock
    /\ hashOrder = <<>>
    /\ runs = 1
    /\ prompt = <<>>
    /\ digest = <<>>
    /\ fallbacks = <<>>
    /\ sent = <<>>
    /\ calls = <<>>
    /\ log = <<>>

NextClean == CleanText

SpecClean == InitClean /\ [][NextClean]_vars

\* C2: clean_text is idempotent: clean_text(clean_text(x)) = clean_text(x)
\* for every text x.
C2_Idempotent == Len(cleaned) >= 2 => cleaned[2] = cleaned[1]

\* C9 as stated: every character of a result of clean_text is printable
\* ASCII, 0x20 to 0x7E.
C9_PrintableOnly ==
    \A k \in 1..Len(cleaned) : \A i \in 1..Len(cleaned[k]) :
        cleaned[k][i] >= 32 /\ cleaned[k][i] <= 126

\* C9 as amended: every character of a result of clean_text is ASCII, 0x00 to
\* 0x7F, and the only whitespace character in it is the space.
C9_AsciiOnly ==
    \A k \in 1..Len(cleaned) : \A i \in 1..Len(cleaned[k]) :
        /\ cleaned[k][i] >= 0 /\ cleaned[k][i] <= 127
        /\ IsSpace(cleaned[k][i]) => cleaned[k][i] = 32

\* A text with a non-ASCII character, a tab and a NUL has been cleaned, and
\* the NUL is in the result.
C9_Witness ==
    /\ cleaned # <<>>
    /\ \E i \in 1..Len(text) : text[i] > 127
    /\ \E i \in 1..Len(text) : text[i] = 9
    /\ \E i \in 1..Len(cleaned[1]) : cleaned[1][i] = 0

-----------------------------------------------------------------------------
(* categorize_headlines on its own.                                        *)

\* The longest list of headlines handed to a stage on its own.
MaxHeadlines == 3

SampleUrl == Codes("https://example.com/a")

\* Titles with keywords of several rule sets, of one, and of none.
SampleTitles == {
    Codes("ONGC signs tender for gas pipeline"),
    Codes("Metro bridge contract awarded"),
    Codes("Bid opens for JCB loader"),
    Codes("Digital crane launched"),
    Codes("Maintaining roads"),
    Codes("Weather update"),
    Codes("CONSTRUCTION MACHINE sales") }

SampleHeadlines ==
    {[title |-> t, source |-> "ET Infra", url |-> SampleUrl] : t \in SampleTitles}
    \cup {[title |-> Codes("Weather update"), source |-> "ONGC", url |-> SampleUrl]}

InitCategorize ==
    /\ pc = "categorize"
    /\ headlines \in SeqsUpTo(SampleHeadlines, MaxHeadlines)
    /\ text = <<>>
    /\ cleaned = <<>>
    /\ siteIdx = Len(Sites) + 1
    /\ outcome = [s \in Sources |-> [kind |-> "pending", status |-> 0]]
    /\ categorized = NoCategories
    /\ now = NoClock
    /\ hashOrder = <<>>
    /\ runs = 1
    /\ prompt = <<>>
    /\ digest = <<>>
    /\ fallbacks = <<>>
    /\ sent = <<>>
    /\ calls = <<>>
    /\ log = <<>>

NextCategorize == Categorize

SpecCategorize == InitCategorize /\ [][NextCategorize]_vars

\* The rule sets in the order the claim tests them.
RulePriority == << [bucket |-> "Energy & Oil", keywords |-> energy],
                   [bucket |-> "Construction & Infrastructure", keywords |-> construction],
                   [bucket |-> "Tenders & Contracts", keywords |-> tenders],
                   [bucket |-> "Heavy Equipment", keywords |-> equipment],
                   [bucket |-> "Technology & Innovation", keywords |-> tech] >>

\* The rule sets with a keyword occurring in the lower-cased title.
MatchingRules(h) ==
    {r \in 1..Len(RulePriority) :
        \E k \in RulePriority[r].keywords : Contains(Lower(h.title), k)}

FirstMatchBucket(h) ==
    IF MatchingRules(h) = {} THEN "Other News"
    ELSE RulePriority[CHOOSE r \in MatchingRules(h) :
                          \A q \in MatchingRules(h) : r <= q].bucket

\* How many times x occurs in the sequence q.
Count(q, x) == Cardinality({i \in 1..Len(q) : q[i] = x})

\* C1: categorize_headlines puts every headline in exactly one of the six
\* buckets, none dropped and none in two: the bucket of the first rule set,
\* in the order Energy & Oil, Construction & Infrastructure, Tenders &
\* Contracts, Heavy Equipment, Technology & Innovation, with a keyword in the
\* lower-cased title, and Other News when no rule set has one.
C1_FirstMatchBucket ==
    pc = "generate" =>
        /\ DOMAIN categorized = Categories
        /\ \A c \in Categories : \A i \in 1..Len(categorized[c]) :
              \E j \in 1..Len(headlines) : headlines[j] = categorized[c][i]
        /\ \A j \in 1..Len(headlines) : \A c \in Categories :
              Count(categorized[c], headlines[j]) =
                  IF c = FirstMatchBucket(headlines[j])
                  THEN Count(headlines, headlines[j]) ELSE 0

\* A list with a title matching the energy and the tenders sets, a title
\* matching the equipment and the technology sets, and a title matching none
\* has been categorized.
C1_Witness ==
    /\ pc = "generate"
    /\ Len(headlines) = 3
    /\ \E j \in 1..3 : MatchingRules(headlines[j]) = {1, 3}
    /\ \E j \in 1..3 : MatchingRules(headlines[j]) = {4, 5}
    /\ \E j \in 1..3 : MatchingRules(headlines[j]) = {}
    /\ Len(categorized["Other News"]) = 1
    /\ Len(categorized["Heavy Equipment"]) = 1

-----------------------------------------------------------------------------
(* create_fallback_digest on its own: two runs of the bot, each in its own *)
(* interpreter (line 239), call it with the same categories at the same    *)
(* clock time.                                                             *)

ComposeTitles == { Codes("ONGC signs tender for gas pipeline"),
                   Codes("Digital crane launched") }

ComposeSources == {"ET Infra", "ONGC", "BEML"}

ComposeHeadlines ==
    {[title |-> t, source |-> s, url |-> SampleUrl] :
        t \in ComposeTitles, s \in ComposeSources}

\* A run calls create_fallback_digest (lines 183, 185-202): its interpreter's
\* hash seed decides the order the sets of line 195 show.
FallbackCall ==
    /\ pc \in {"fallback", "fallback again"}
    /\ \E order \in HashOrders(categorized) :
          /\ hashOrder' = order
          /\ fallbacks' = Append(fallbacks,
                 [now |-> now, run |-> runs,
                  text |-> create_fallback_digest(categorized, now, order)])
    /\ calls' = Append(calls, <<"create_fallback_digest">>)
    /\ pc' = IF pc = "fallback" THEN "returned" ELSE "returned again"
    /\ UNCHANGED <<text, cleaned, siteIdx, outcome, headlines, categorized, now,
                   runs, prompt, digest, sent, log>>

\* The first run is over; the next one starts in a new interpreter.
NextProcess ==
    /\ pc = "returned"
    /\ runs' = runs + 1
    /\ hashOrder' = <<>>
    /\ pc' = "fallback again"
    /\ UNCHANGED <<text, cleaned, siteIdx, outcome, headlines, categorized, now,
                   prompt, digest, fallbacks, sent, calls, log>>

InitFallback ==
    /\ pc = "fallback"
    /\ headlines \in SeqsUpTo(ComposeHeadlines, MaxHeadlines)
    /\ categorized = categorize_headlines(headlines)
    /\ now \in Clocks
    /\ text = <<>>
    /\ cleaned = <<>>
    /\ siteIdx = Len(Sites) + 1
    /\ outcome = [s \in Sources |-> [kind |-> "pending", status |-> 0]]
    /\ hashOrder = <<>>
    /\ runs = 1
    /\ prompt = <<>>
    /\ digest = <<>>
    /\ fallbacks = <<>>
    /\ sent = <<>>
    /\ calls = <<>>
    /\ log = <<>>

NextFallback == FallbackCall \/ NextProcess

SpecFallback == InitFallback /\ [][NextFallback]_vars

\* The distinct source labels of a bucket.
LabelsOf(items) == {items[i].source : i \in 1..Len(items)}

\* The lists of distinct labels of a bucket that name two of them, or the
\* only one.
SourceLists(items) ==
    {q \in SeqsUpTo(LabelsOf(items), 2) :
        /\ Len(q) = Min(2, Cardinality(LabelsOf(items)))
        /\ \A i, j \in 1..Len(q) : i # j => q[i] # q[j]}

\* The heading of a bucket and its line "<n> key updates from <sources>.".
SectionTexts(c, items) ==
    {BoldOpen \o CategoryCodes[c] \o HeadingClose \o NL
     \o Str(Len(items)) \o KeyUpdatesFrom
     \o Join([i \in 1..Len(q) |-> SourceText(q[i])], CommaSpace)
     \o FullStop \o NL \o NL : q \in SourceLists(items)}

RECURSIVE SectionsThenEnd(_, _, _)
\* rest is one section for each category of cs, in that order, then the
\* "No infrastructure news" line when every bucket is empty, then the
\* signature line.
SectionsThenEnd(rest, cs, cat) ==
    IF cs = <<>>
    THEN rest = (IF \A c \in Categories : cat[c] = <<>> THEN NoNewsLine ELSE <<>>)
                \o Signature
    ELSE \E sec \in SectionTexts(Head(cs), cat[Head(cs)]) :
            /\ StartsWith(rest, sec)
            /\ SectionsThenEnd(SubSeq(rest, Len(sec) + 1, Len(rest)), Tail(cs), cat)

NoNewsWords == Codes("No infrastructure news")

\* C6: the fallback digest has a bold heading for exactly the non-empty
\* buckets, in display order, each followed by "<n> key updates from
\* <sources>." with n the bucket's size and at most two distinct labels of
\* the bucket; it has the "No infrastructure news" line exactly when every
\* bucket is empty; and it ends with the signature line.
C6_FallbackShape ==
    \A k \in 1..Len(fallbacks) :
        LET d == fallbacks[k].text
            header == FallbackHeader(fallbacks[k].now)
        IN  /\ StartsWith(d, header)
            /\ SectionsThenEnd(SubSeq(d, Len(header) + 1, Len(d)),
                               SelectSeq(CategoryOrder, LAMBDA c : categorized[c] # <<>>),
                               categorized)
            /\ \A c \in Categories :
                  Contains(d, BoldOpen \o CategoryCodes[c] \o HeadingClose)
                      <=> categorized[c] # <<>>
            /\ Contains(d, NoNewsWords) <=> (\A c \in Categories : categorized[c] = <<>>)
            /\ EndsWith(d, Signature)

\* The fallback digest was made for a bucket with three distinct sources.
C6_Witness ==
    /\ fallbacks # <<>>
    /\ \E c \in Categories : Cardinality(LabelsOf(categorized[c])) = 3

\* The fallback digest was made for two non-empty buckets.
C6_WitnessTwoBuckets ==
    /\ fallbacks # <<>>
    /\ Cardinality({c \in Categories : categorized[c] # <<>>}) = 2

\* The fallback digest was made with every bucket empty.
C6_WitnessNoNews ==
    /\ fallbacks # <<>>
    /\ \A c \in Categories : categorized[c] = <<>>

\* C10: two calls of create_fallback_digest with the same buckets at the
\* same clock time return the same text, source labels and their order
\* included.
C10_Deterministic ==
    \A i, j \in 1..Len(fallbacks) :
        fallbacks[i].now = fallbacks[j].now => fallbacks[i].text = fallbacks[j].text

-----------------------------------------------------------------------------
(* send_to_telegram on its own.                                            *)

\* The most pieces a message is put together from.
MaxPieces == 3

\* The fragments the chain replaces, and pieces of them that a replacement
\* can bring together.
Pieces == { UlOpen, UlClose, LiOpen, LiClose, Br, BrSlash, BrSpaceSlash, Nbsp,
            Codes("Foo"), Codes("<u"), Codes("l>"), Codes("<l"), Codes("i>"),
            Codes("<br"), Codes("/>") }

ListExample == Codes("<li>Foo</li><br>Bar")

Messages == {Concat(q) : q \in SeqsUpTo(Pieces, MaxPieces)} \cup {ListExample}

InitSend ==
    /\ pc = "send"
    /\ digest \in Messages
    /\ text = <<>>
    /\ cleaned = <<>>
    /\ siteIdx = Len(Sites) + 1
    /\ outcome = [s \in Sources |-> [kind |-> "pending", status |-> 0]]
    /\ headlines = <<>>
    /\ categorized = NoCategories
    /\ now = NoClock
    /\ hashOrder = <<>>
    /\ runs = 1
    /\ prompt = <<>>
    /\ fallbacks = <<>>
    /\ sent = <<>>
    /\ calls = <<>>
    /\ log = <<>>

NextSend == SendOk \/ SendFail

SpecSend == InitSend /\ [][NextSend]_vars

ListExampleOneNewline == Bullet \o Codes("Foo") \o NL \o Codes("Bar")
ListExampleTwoNewlines == Bullet \o Codes("Foo") \o NL \o NL \o Codes("Bar")

\* C5 as stated: `<li>Foo</li><br>Bar` is dispatched as bullet, Foo, one
\* newline, Bar; and the text handed to the delivery backend contains none
\* of <ul>, </ul>, <li>, </li>, <br>, <br/>, <br /> and &nbsp;.
C5_AsStated ==
    \A k \in 1..Len(sent) :
        /\ digest = ListExample => sent[k] = ListExampleOneNewline
        /\ \A f \in {UlOpen, UlClose, LiOpen, LiClose, Br, BrSlash, BrSpaceSlash, Nbsp} :
              ~Contains(sent[k], f)

\* C5 as amended: `<li>Foo</li><br>Bar` is dispatched as bullet, Foo, two
\* newlines, Bar; and the text handed to the delivery backend contains none
\* of <li>, </li>, <br>, <br/> and &nbsp;.
C5_Sanitized ==
    \A k \in 1..Len(sent) :
        /\ digest = ListExample => sent[k] = ListExampleTwoNewlines
        /\ \A f \in {LiOpen, LiClose, Br, BrSlash, Nbsp} : ~Contains(sent[k], f)

\* The example message has been handed to the delivery backend.
C5_Witness ==
    /\ digest = ListExample
    /\ sent = <<ListExampleTwoNewlines>>

SplitLiOpen == Codes("<l") \o UlOpen \o Codes("i>")

\* A message in which removing a fragment brought the pieces of a list tag
\* together has been handed to the delivery backend.
C5_WitnessFormed ==
    /\ sent # <<>>
    /\ digest = SplitLiOpen
    /\ sent[1] = Bullet

\* C5, each part of the statement alone.
C5_ExampleOneNewline ==
    \A k \in 1..Len(sent) : digest = ListExample => sent[k] = ListExampleOneNewline

C5_NoUlLeft ==
    \A k \in 1..Len(sent) : ~Contains(sent[k], UlOpen) /\ ~Contains(sent[k], UlClose)

C5_NoBrSpaceSlashLeft ==
    \A k \in 1..Len(sent) : ~Contains(sent[k], BrSpaceSlash)

====
